---- MODULE Spec2Model ----
(***************************************************************************)
(* Model of the reactive core of maple-core/src/reactive.rs: signals,      *)
(* effects and memos, the CONTEXTS stack and the synchronous, re-entrant   *)
(* notification performed by Signal::set.                                  *)
(* A second specification, SpecList, models the list reconcilers           *)
(* map_keyed and map_indexed of maple-core/src/reactive/iter.rs, called    *)
(* from the top level; SpecFailing is the same with a map function that    *)
(* panics on an item.  In Spec one program calls the closure of a          *)
(* reconciler from inside an effect.                                       *)
(*                                                                         *)
(* The Rust call stack is explicit (variable stack): a frame stands for a  *)
(* call of Signal::set, of an effect's execute callback, of a memo's       *)
(* callback or of create_effect_initial, and records its position.  Only   *)
(* the top frame takes steps, as in a single-threaded program.             *)
(***************************************************************************)
EXTENDS Integers, Sequences, FiniteSets, TLC

\* ------------------------------------------------------------------ bounds
\* Values written by top-level writes are drawn from 0..MaxVal.
MaxVal == 1
\* Number of frames the call stack can hold before the process dies of
\* stack exhaustion (unbounded recursion is cut here).
MaxDepth == 8

\* Lists fed to the reconcilers hold at most MaxLen items drawn from
\* 1..MaxItem, and the closure under test is called at most MaxCalls times;
\* the lists and the sequences of calls of the tests of iter.rs are added to
\* these.
MaxItem == 2
MaxLen == 2
MaxCalls == 2

Vals == 0..MaxVal

\* ----------------------------------------------------------- user program
\* The signals and computations of the program under test.  They are the
\* shapes used by the tests of reactive.rs.
UserSignals == {"A", "B", "C"}
MemoSignals == {"mM1", "mM2", "mM3", "mM4", "mM5", "mM6", "mS1", "mS2"}
\* The source list of a reconciler.
ListSignals == {"L"}
Signals == UserSignals \cup MemoSignals \cup ListSignals

Effects == {"Eonce", "Edbl", "Ecyc", "Ecnd", "Eab", "Eb", "Es", "Es2", "Eu",
            "Emap", "El", "Eout", "Ein"}
\* create_selector (PartialEq) and create_selector_with (custom comparator).
Selectors == {"S1"}
SelectorsWith == {"S2"}
\* Every computation built by create_selector_with: create_memo, create_selector
\* and direct callers.
Memos == {"M1", "M2", "M3", "M4", "M5", "M6"} \cup Selectors \cup SelectorsWith
Comps == Effects \cup Memos

GetOp(s) == [op |-> "get", sig |-> s, alt |-> s]
GetIfOp(s, t) == [op |-> "getif", sig |-> s, alt |-> t]
SetOp(s, f) == [op |-> "set", sig |-> s, alt |-> f]
GetUntrackedOp(s) == [op |-> "getu", sig |-> s, alt |-> s]
MappedOp(s) == [op |-> "mapped", sig |-> s, alt |-> s]
CreateOp(c) == [op |-> "create", sig |-> c, alt |-> c]

\* The closure of each computation, as a list of operations on an
\* accumulator: get s (acc := *s.get()), getif s t (if acc then s.get()
\* else t.get()), set s f (s.set(f(acc))), getu s (acc := *s.get_untracked()),
\* mapped s (mapped(), the closure map_keyed or map_indexed returned for s),
\* create c (create_effect or create_memo of c, the first time the closure
\* runs).
Body(c) ==
    CASE c = "Eonce" -> <<GetOp("A"), GetOp("A")>>
      [] c = "Edbl"  -> <<GetOp("A"), SetOp("B", "double")>>
      [] c = "Ecyc"  -> <<GetOp("A"), SetOp("A", "inc")>>
      [] c = "Ecnd"  -> <<GetOp("C"), GetIfOp("A", "B")>>
      [] c = "Eab"   -> <<GetOp("A"), GetOp("B")>>
      [] c = "Eb"    -> <<GetOp("B")>>
      [] c = "M1"    -> <<GetOp("A")>>
      [] c = "M2"    -> <<GetOp("mM1")>>
      [] c = "M3"    -> <<GetUntrackedOp("A")>>
      [] c = "M4"    -> <<GetOp("B"), GetOp("A")>>
      [] c = "M5"    -> <<GetOp("A"), GetIfOp("B", "A")>>
      [] c = "S1"    -> <<GetOp("A")>>
      [] c = "S2"    -> <<GetOp("A")>>
      [] c = "Es"    -> <<GetOp("mS1")>>
      [] c = "Es2"   -> <<GetOp("mS2")>>
      [] c = "Eu"    -> <<GetUntrackedOp("A"), SetOp("B", "copy")>>
      [] c = "Emap"  -> <<MappedOp("L")>>
      [] c = "El"    -> <<GetOp("L")>>
      [] c = "Eout"  -> <<GetOp("A"), CreateOp("Ein"), CreateOp("M6"), GetOp("B")>>
      [] c = "Ein"   -> <<GetOp("C")>>
      [] c = "M6"    -> <<GetOp("C")>>

Apply(f, x) ==
    CASE f = "double" -> x * 2
      [] f = "inc"    -> x + 1
      [] f = "copy"   -> x

\* The value a memo's derive closure returns, from the accumulator.
ResultFn(c) == "double"

MemoSignal(c) ==
    CASE c = "M1" -> "mM1"
      [] c = "M2" -> "mM2"
      [] c = "M3" -> "mM3"
      [] c = "M4" -> "mM4"
      [] c = "M5" -> "mM5"
      [] c = "M6" -> "mM6"
      [] c = "S1" -> "mS1"
      [] c = "S2" -> "mS2"
Owner(s) == CHOOSE c \in Memos : MemoSignal(c) = s

\* The programs the model is run on: each is a set of computations that
\* the top level may create, in any order.
Programs ==
    { {"Eonce", "Edbl", "Eab"},
      {"Ecnd", "Eb"},
      {"Ecyc", "Eonce"},
      {"M1", "M2", "Eonce"},
      {"S1", "Es", "Eonce"},
      {"S2", "Es2"},
      {"M3", "M4", "Eu"},
      {"M5"},
      {"Eout", "Ein", "M6"},
      {"Emap", "El"} }

\* ------------------------------------------------------------------ state
VARIABLES
    avail,          \* the computations of the program under test
    value,          \* SignalInner.inner of every signal
    subscribers,    \* SignalInner.subscribers of every signal
    dependencies,   \* Running.dependencies of every computation
    created,        \* computations whose create_* call has been made
    contexts,       \* the CONTEXTS stack (computation of each Running)
    stack,          \* the call stack
    status,         \* "ok", or how the process died
    log,            \* history: calls and returns of the top-level call in progress
    lastSet,        \* history: the value passed to the latest set of each signal
    observed,       \* history: <<s, v>> for every signal read with get in the latest run
    firstRead,      \* history: computations in the order they first read a signal
    build,          \* "debug" or "release": whether debug_assert! is compiled in
    mode,           \* which reconciler the closure under test comes from
    mapper,         \* the map_fn handed to the reconciler
    list,           \* the value of the source signal of the reconciler
    items,          \* the closure's `items`: the previous source list
    mapped,         \* the closure's `mapped`: the previous outputs
    scopes,         \* the closure's `scopes`: the scope owning each output
    counter,        \* the Cell the counting map_fn increments
    scopeCount,     \* number of scopes create_root has made
    trace           \* history: one record per call of the closure

listVars == <<build, mode, mapper, list, items, mapped, scopes, counter,
              scopeCount, trace>>

vars == <<avail, value, subscribers, dependencies, created, contexts, stack,
          status, log, lastSet, observed, firstRead, listVars>>

Range(q) == {q[i] : i \in 1..Len(q)}

Top == stack[Len(stack)]
Idle == status = "ok" /\ stack = <<>>
Active == status = "ok" /\ stack # <<>>

\* ------------------------------------------------------------- SignalInner
\* StateHandle::get_untracked.
GetUntracked(s) == value[s]

SubscribeNever(subs, handler) == subs
SubscribeAlways(subs, handler) == Append(subs, handler)

\* SignalInner::subscribe: push unless already present (by identity).
Subscribe(subs, handler) ==
    IF \E i \in 1..Len(subs) : subs[i] = handler THEN subs ELSE Append(subs, handler)

\* SignalInner::unsubscribe: the filter keeps the subscribers that ARE the
\* handler (reactive.rs:204-210).
Unsubscribe(subs, handler) ==
    SelectSeq(subs, LAMBDA x : x = handler)

\* A RefCell borrow of a signal that is still held while other code runs.
\* Every borrow in reactive.rs is a temporary dropped within its statement
\* (get_untracked, update, the clone of the subscribers, subscribe,
\* unsubscribe), so none is.
Borrowed(s) == FALSE

\* cleanup_running: unsubscribe the callback from every recorded dependency.
CleanupSubscribers(c) ==
    [s \in Signals |->
        IF s \in Range(dependencies[c])
        THEN Unsubscribe(subscribers[s], c)
        ELSE subscribers[s]]

\* The "attach dependencies" loops: subscribe callback c to every dependency
\* of the Running on top of CONTEXTS.
AttachSubscribers(c) ==
    LET deps == dependencies[contexts[Len(contexts)]] IN
    [s \in Signals |->
        IF s \in Range(deps) THEN Subscribe(subscribers[s], c) ELSE subscribers[s]]

\* ------------------------------------------------------------------ frames
Frame(k, c, s, v, p, snap, rd) ==
    [kind |-> k, comp |-> c, sig |-> s, val |-> v, pc |-> p, acc |-> 0,
     size |-> 0, snapshot |-> snap, atStore |-> snap, invoked |-> <<>>,
     readers |-> rd]

\* A call of an effect's execute callback; sig is the signal whose set
\* invoked it ("-" for create_effect).
RunFrame(c, s) == Frame("run", c, s, 0, 0, <<>>, {})
MemoFrameNoDerive(c, s) == Frame("memo", c, s, 0, Len(Body(c)) + 1, <<>>, {})
\* A call of the callback built by create_selector_with.
MemoFrame(c, s) == Frame("memo", c, s, 0, 1, <<>>, {})
\* create_effect_initial running `initial`.
InitFrame(c) == Frame("init", c, "-", 0, 1, <<>>, {})

OnStack(c) == \E i \in 1..Len(stack) : stack[i].kind # "set" /\ stack[i].comp = c

\* The effects whose latest run is over and read signal s.
ReadersOf(s) ==
    {e \in (created \cap Effects) :
        ~OnStack(e) /\ \E p \in observed[e] : p[1] = s}

\* Signal::set after the store: the local `subscribers` is a clone of the list.
SetFrame(s, v) == Frame("set", "-", s, v, 1, subscribers[s], ReadersOf(s))

LiveSubscribers(f) == subscribers[f.sig]
ReversedSubscribers(f) ==
    [i \in 1..Len(f.snapshot) |-> f.snapshot[Len(f.snapshot) + 1 - i]]
\* The local `subscribers` of Signal::set, the list its loop iterates.
ClonedSubscribers(f) == f.snapshot

\* for subscriber in subscribers { subscriber.0() }
HasNext(f) == f.pc <= Len(ClonedSubscribers(f))
NextSubscriber(f) == ClonedSubscribers(f)[f.pc]

CallDeferred(stk, f) == <<f>> \o stk
\* A Rust call: the callee runs to completion before the caller goes on.
Call(stk, f) == Append(stk, f)

WithTop(f) == [stack EXCEPT ![Len(stack)] = f]

\* Leaving the top frame; the history of a top-level call ends with it.
Return(ev) ==
    /\ stack' = SubSeq(stack, 1, Len(stack) - 1)
    /\ log' = IF Len(stack) = 1 THEN <<>> ELSE Append(log, ev)

\* A call made with the stack exhausted kills the process.
Invoke(callerStack, f, ev) ==
    IF Len(callerStack) >= MaxDepth
    THEN /\ status' = "overflow"
         /\ stack' = callerStack
         /\ log' = log
    ELSE /\ status' = status
         /\ stack' = Call(callerStack, f)
         /\ log' = Append(log, ev)

\* ------------------------------------------------------------- Signal::set
UpdateDropped(s, v) == value
\* SignalInner::update.
Update(s, v) == [value EXCEPT ![s] = v]

\* Signal::set(v) called with callerStack as the stack of its caller.
SignalSet(s, v, callerStack) ==
    IF Borrowed(s)
    THEN /\ status' = "cyclic"
         /\ UNCHANGED <<value, lastSet, stack, log>>
    ELSE /\ value' = Update(s, v)
         /\ lastSet' = [lastSet EXCEPT ![s] = <<v>>]
         /\ Invoke(callerStack, SetFrame(s, v), <<"set", s>>)

\* A top-level write.
\* The signals the program creates: those its computations name.
ProgramSignals ==
    Signals \cap
       (UNION {{Body(c)[i].sig : i \in 1..Len(Body(c))} \cup
               {Body(c)[i].alt : i \in 1..Len(Body(c))} : c \in avail}
          \cup (IF "Emap" \in avail THEN {"A"} ELSE {}))

Write(s, v) ==
    /\ Idle /\ s \in ProgramSignals
    /\ SignalSet(s, v, stack)
    /\ UNCHANGED <<listVars, avail, subscribers, dependencies, created, contexts,
                   observed, firstRead>>

\* The loop of Signal::set calls the next subscriber of its clone.
Notify ==
    /\ Active /\ Top.kind = "set" /\ HasNext(Top)
    /\ LET f == Top
           c == NextSubscriber(f)
           caller == WithTop([f EXCEPT !.pc = @ + 1, !.invoked = Append(@, c)])
       IN /\ Invoke(caller,
                    IF c \in Effects THEN RunFrame(c, f.sig) ELSE MemoFrame(c, f.sig),
                    <<"run", c>>)
          /\ observed' = IF c \in Memos /\ Len(caller) < MaxDepth
                         THEN [observed EXCEPT ![c] = {}] ELSE observed
    /\ UNCHANGED <<listVars, avail, value, subscribers, dependencies, created, contexts,
                   lastSet, firstRead>>

\* Signal::set returns once every subscriber of the clone has been called.
SetReturn ==
    /\ Active /\ Top.kind = "set" /\ ~HasNext(Top)
    /\ Return(<<"setret", Top.sig>>)
    /\ UNCHANGED <<listVars, avail, value, subscribers, dependencies, created, contexts,
                   status, lastSet, observed, firstRead>>

\* ----------------------------------------------------------- create_effect
\* create_effect: store the Running and call execute.
\* The computations the program creates at the top level: those no closure
\* creates.
TopLevel(c) ==
    \A d \in avail : \A i \in 1..Len(Body(d)) :
        ~(Body(d)[i].op = "create" /\ Body(d)[i].sig = c)

CreateEffect(e) ==
    /\ Idle /\ TopLevel(e)
    /\ e \in (avail \cap Effects) \ created
    /\ \A i \in 1..Len(Body(e)) :
          Body(e)[i].sig \in MemoSignals => Owner(Body(e)[i].sig) \in created
    /\ created' = created \cup {e}
    /\ dependencies' = [dependencies EXCEPT ![e] = <<>>]
    /\ Invoke(stack, RunFrame(e, "-"), <<"run", e>>)
    /\ UNCHANGED <<listVars, avail, value, subscribers, contexts, lastSet, observed, firstRead>>

\* execute, up to the call of the closure: remember the context size,
\* cleanup_running, push the Running.
EffectStart ==
    /\ Active /\ Top.kind = "run" /\ Top.pc = 0
    /\ LET e == Top.comp IN
         /\ subscribers' = CleanupSubscribers(e)
         /\ dependencies' = [dependencies EXCEPT ![e] = <<>>]
         /\ contexts' = Append(contexts, e)
         /\ observed' = [observed EXCEPT ![e] = {}]
         /\ stack' = WithTop([Top EXCEPT !.pc = 1, !.size = Len(contexts)])
    /\ UNCHANGED <<listVars, avail, value, created, status, log, lastSet, firstRead>>

InBody == Active /\ Top.kind \in {"run", "init", "memo"}
                 /\ Top.pc >= 1 /\ Top.pc <= Len(Body(Top.comp))
CurOp == Body(Top.comp)[Top.pc]

TrackedDependenciesOutermost(s) ==
    IF contexts = <<>> THEN dependencies
    ELSE LET r == contexts[1] IN
         IF \E i \in 1..Len(dependencies[r]) : dependencies[r][i] = s
         THEN dependencies
         ELSE [dependencies EXCEPT ![r] = Append(@, s)]
\* StateHandle::get: record the signal in the Running on top of CONTEXTS,
\* unless it is already recorded, then get_untracked.
TrackedDependencies(s) ==
    IF contexts = <<>> THEN dependencies
    ELSE LET r == contexts[Len(contexts)] IN
         IF \E i \in 1..Len(dependencies[r]) : dependencies[r][i] = s
         THEN dependencies
         ELSE [dependencies EXCEPT ![r] = Append(@, s)]

\* History: the derive closure of a memo is entered when its first
\* operation runs.
LogDerive ==
    IF Top.kind \in {"init", "memo"} /\ Top.pc = 1
    THEN Append(log, <<"derive", Top.comp>>) ELSE log

\* The closure calls get() on a signal.
BodyGet ==
    /\ InBody /\ CurOp.op \in {"get", "getif"}
    /\ LET c == Top.comp
           s == IF CurOp.op = "getif" /\ Top.acc = 0 THEN CurOp.alt ELSE CurOp.sig
       IN /\ dependencies' = TrackedDependencies(s)
          /\ stack' = WithTop([Top EXCEPT !.pc = @ + 1, !.acc = GetUntracked(s)])
          /\ observed' = [observed EXCEPT
                 ![c] = {p \in @ : p[1] # s} \cup {<<s, GetUntracked(s)>>}]
          /\ firstRead' = [firstRead EXCEPT ![s] = IF c \in Range(@) THEN @ ELSE Append(@, c)]
    /\ log' = LogDerive
    /\ UNCHANGED <<listVars, avail, value, subscribers, created, contexts, status, lastSet>>

UntrackedDependenciesRecorded(s) == TrackedDependencies(s)
\* StateHandle::get_untracked does not touch CONTEXTS.
UntrackedDependencies(s) == dependencies

\* The closure calls get_untracked() on a signal.
BodyGetUntracked ==
    /\ InBody /\ CurOp.op = "getu"
    /\ LET s == CurOp.sig
       IN /\ dependencies' = UntrackedDependencies(s)
          /\ stack' = WithTop([Top EXCEPT !.pc = @ + 1, !.acc = GetUntracked(s)])
    /\ log' = LogDerive
    /\ UNCHANGED <<listVars, avail, value, subscribers, created, contexts, status, lastSet,
                   observed, firstRead>>

\* The closure calls set() on a signal.
BodySet ==
    /\ InBody /\ CurOp.op = "set"
    /\ SignalSet(CurOp.sig, Apply(CurOp.alt, Top.acc),
                 WithTop([Top EXCEPT !.pc = @ + 1]))
    /\ UNCHANGED <<listVars, avail, subscribers, dependencies, created, contexts,
                   observed, firstRead>>

PopContextSkipped == contexts
\* contexts.borrow_mut().pop().
PopContext == SubSeq(contexts, 1, Len(contexts) - 1)

\* execute, after the closure returned: subscribe to the dependencies of the
\* Running on top of CONTEXTS and pop it.
EffectAttach ==
    /\ Active /\ Top.kind = "run" /\ Top.pc = Len(Body(Top.comp)) + 1
    /\ subscribers' = AttachSubscribers(Top.comp)
    /\ contexts' = PopContext
    /\ stack' = WithTop([Top EXCEPT !.pc = @ + 1])
    /\ UNCHANGED <<listVars, avail, value, dependencies, created, status, log, lastSet,
                   observed, firstRead>>

\* execute returns, after debug_assert_eq!(initial_context_size, len).
EffectReturn ==
    /\ Active /\ Top.kind = "run" /\ Top.pc = Len(Body(Top.comp)) + 2
    /\ IF Len(contexts) = Top.size
       THEN Return(<<"ret", Top.comp>>) /\ status' = status
       ELSE status' = "assert" /\ UNCHANGED <<stack, log>>
    /\ UNCHANGED <<listVars, avail, value, subscribers, dependencies, created, contexts,
                   lastSet, observed, firstRead>>

\* ------------------------------------------------- create_selector_with
\* The comparator handed to create_selector_with: |_, _| false by
\* create_memo, PartialEq::eq by create_selector, and for the direct caller
\* S2 a comparator that calls two values equal when they are on the same
\* side of 2.
ComparatorEq(c, old, new) == old = new
Comparator(c, old, new) ==
    IF c \in Selectors THEN old = new
    ELSE IF c \in SelectorsWith THEN (old <= 2) = (new <= 2)
    ELSE FALSE

\* create_selector_with -> create_effect_initial, up to the call of derived:
\* push a fresh Running.
CreateMemo(m) ==
    /\ Idle /\ TopLevel(m)
    /\ m \in (avail \cap Memos) \ created
    /\ \A i \in 1..Len(Body(m)) :
          Body(m)[i].sig \in MemoSignals => Owner(Body(m)[i].sig) \in created
    /\ contexts' = Append(contexts, m)
    /\ dependencies' = [dependencies EXCEPT ![m] = <<>>]
    /\ observed' = [observed EXCEPT ![m] = {}]
    /\ Invoke(stack, [InitFrame(m) EXCEPT !.size = Len(contexts)], <<"run", m>>)
    /\ UNCHANGED <<listVars, avail, value, subscribers, created, lastSet, firstRead>>

\* create_effect_initial after derived returned: Signal::new(derived()),
\* subscribe the callback to the dependencies, pop the Running, return.
MemoInitAttach ==
    /\ Active /\ Top.kind = "init" /\ Top.pc = Len(Body(Top.comp)) + 1
    /\ LET m == Top.comp IN
         /\ value' = [value EXCEPT ![MemoSignal(m)] = Apply(ResultFn(m), Top.acc)]
         /\ subscribers' = AttachSubscribers(m)
         /\ contexts' = PopContext
         /\ dependencies' = [dependencies EXCEPT ![contexts[Len(contexts)]] = <<>>]
         /\ created' = created \cup {m}
         /\ Return(<<"ret", m>>)
    /\ UNCHANGED <<listVars, avail, status, lastSet, observed, firstRead>>

ValueWhenEqualStored(m, new) == [value EXCEPT ![MemoSignal(m)] = new]
\* The callback when the comparator returns true: new_value is dropped, the
\* signal is not touched (reactive.rs:393-398).
ValueWhenEqual(m, new) == value

\* The memo's callback after derived returned: set the memo's signal unless
\* the comparator reports the values equal.
MemoCompare ==
    /\ Active /\ Top.kind = "memo" /\ Top.pc = Len(Body(Top.comp)) + 1
    /\ LET m == Top.comp
           new == Apply(ResultFn(m), Top.acc)
           caller == WithTop([Top EXCEPT !.pc = @ + 1,
                                         !.val = GetUntracked(MemoSignal(m))])
       IN IF ~Comparator(m, GetUntracked(MemoSignal(m)), new)
          THEN SignalSet(MemoSignal(m), new, caller)
          ELSE /\ stack' = caller
               /\ value' = ValueWhenEqual(m, new)
               /\ UNCHANGED <<lastSet, status, log>>
    /\ UNCHANGED <<listVars, avail, subscribers, dependencies, created, contexts,
                   observed, firstRead>>

\* The memo's callback returns.
MemoReturn ==
    /\ Active /\ Top.kind = "memo" /\ Top.pc = Len(Body(Top.comp)) + 2
    /\ Return(<<"ret", Top.comp>>)
    /\ UNCHANGED <<listVars, avail, value, subscribers, dependencies, created, contexts,
                   status, lastSet, observed, firstRead>>

\* ------------------------------------------------------- nested creation
\* The closure calls create_effect or create_memo, the first time it runs:
\* the inner computation runs to completion before the closure goes on.
BodyCreate ==
    /\ InBody /\ CurOp.op = "create"
    /\ LET c == CurOp.sig
           caller == WithTop([Top EXCEPT !.pc = @ + 1])
       IN IF c \in created
          THEN /\ stack' = caller
               /\ UNCHANGED <<dependencies, created, contexts, observed, status, log>>
          ELSE IF c \in Effects
          THEN /\ created' = created \cup {c}
               /\ dependencies' = [dependencies EXCEPT ![c] = <<>>]
               /\ Invoke(caller, RunFrame(c, "-"), <<"run", c>>)
               /\ UNCHANGED <<contexts, observed>>
          ELSE /\ contexts' = Append(contexts, c)
               /\ dependencies' = [dependencies EXCEPT ![c] = <<>>]
               /\ observed' = [observed EXCEPT ![c] = {}]
               /\ Invoke(caller, [InitFrame(c) EXCEPT !.size = Len(contexts)],
                         <<"run", c>>)
               /\ UNCHANGED created
    /\ UNCHANGED <<listVars, avail, value, subscribers, lastSet, firstRead>>

\* ======================================================= reactive/iter.rs
\* The closures returned by map_keyed and map_indexed, called from the top
\* level as the tests of iter.rs do: a.set(list), then mapped().

None == <<>>
Some(x) == <<x>>

\* Vectors are indexed from 0 as in the source.
At(v, i) == v[i + 1]
InRange(v, i) == i >= 0 /\ i < Len(v)
Put(v, i, x) == [v EXCEPT ![i + 1] = x]
TruncateKept(v, n) == v
Truncate(v, n) == IF Len(v) > n THEN SubSeq(v, 1, n) ELSE v
Repeat(x, n) == [i \in 1..n |-> x]

RECURSIVE SeqsUpTo(_, _)
SeqsUpTo(S, n) ==
    IF n = 0 THEN {<<>>}
    ELSE LET shorter == SeqsUpTo(S, n - 1)
         IN shorter \cup {Append(q, x) : q \in {r \in shorter : Len(r) = n - 1}, x \in S}

IsPrefix(p, q) == Len(p) <= Len(q) /\ SubSeq(q, 1, Len(p)) = p

\* The lists the tests of iter.rs call the closure on, in turn: tests::keyed
\* and indexed, keyed_clear and indexed_clear,
\* keyed_use_previous_computation, indexed_use_previous_computation.
ScriptAppend == << <<1, 2, 3>>, <<1, 2, 3, 4>>, <<2, 2, 3, 4>> >>
ScriptClear == << <<1, 2, 3>>, <<>> >>
ScriptKeyedPrevious == << <<1, 2, 3>>, <<1, 2>>, <<1, 2, 4>>, <<1, 2, 3, 4>> >>
ScriptIndexedPrevious == << <<1, 2, 3>>, <<1, 2>>, <<1, 2, 4>>, <<1, 3, 4>> >>
TestScripts == {ScriptAppend, ScriptClear, ScriptKeyedPrevious, ScriptIndexedPrevious}
TestLists == UNION {Range(sc) : sc \in TestScripts}
\* The lists the source signal is set to.
Lists == SeqsUpTo(1..MaxItem, MaxLen) \cup TestLists
ItemVals == UNION {Range(l) : l \in Lists}

\* The map functions of the tests: |x| *x * 2, and the closure that
\* increments a counter and returns it.
Mappers == {"double", "counter"}
\* A third map function, |x| *x + *a.get(), reads a signal.
MapFn(item, cnt) ==
    IF mapper = "double" THEN item * 2
    ELSE IF mapper = "reads" THEN item + value["A"]
    ELSE IF mapper = "fails" THEN item * 2
    ELSE cnt + 1
\* A fourth map function, |x| if *x == 2 { panic!() } else { *x * 2 }, fails
\* on an item.
MapFnFails(item) == mapper = "fails" /\ item = 2
\* The signals map_fn calls get() on.
MapFnReads == IF mapper = "reads" THEN {"A"} ELSE {}

\* The part of the closure's state that mapping an item changes.
Machine(st, mp, sc, cnt, n, inv) ==
    [st |-> st, mapped |-> mp, scopes |-> sc, counter |-> cnt, scopeCount |-> n,
     invoked |-> inv]

\* create_root(|| new_mapped = Some(map_fn(item))): a new scope, in which
\* map_fn runs; a panic of map_fn unwinds through it.
CreateRoot(m, item) ==
    [value |-> MapFn(item, m.counter),
     scope |-> m.scopeCount + 1,
     m |-> [m EXCEPT !.st = IF MapFnFails(item) THEN "mapfn" ELSE @,
                     !.counter = IF mapper = "counter" THEN @ + 1 ELSE @,
                     !.scopeCount = @ + 1,
                     !.invoked = Append(@, item)]]

\* debug_assert!(cond): checked in a debug build only.
DebugAssert(cond) == IF build = "debug" /\ ~cond THEN "assert" ELSE "ok"

\* The debug_assert! on the three lengths that ends an update.
LengthsAssert(m, new_items) ==
    IF m.st # "ok" THEN m
    ELSE [m EXCEPT !.st = IF DebugAssert(Len(m.mapped) = Len(new_items)
                                           /\ Len(m.scopes) = Len(new_items)) = "ok"
                          THEN "ok" ELSE "lengths"]

\* ------------------------------------------------------------ map_indexed
IndexedKeepAll(item, new_item) == FALSE
IndexedRemapAll(item, new_item) == TRUE
\* item != Some(new_item), for an index the previous list has.
IndexedDiffers(item, new_item) == item # new_item

\* for (i, new_item) in new_items.iter().enumerate() { ... }
RECURSIVE IndexedLoop(_, _, _)
IndexedLoop(new_items, i, m) ==
    IF i >= Len(new_items) \/ m.st # "ok" THEN m
    ELSE LET new_item == At(new_items, i) IN
         IF ~InRange(items, i)
         THEN LET r == CreateRoot(m, new_item) IN
              IndexedLoop(new_items, i + 1,
                  IF r.m.st # "ok" THEN r.m
                  ELSE [r.m EXCEPT !.mapped = Append(@, r.value),
                                   !.scopes = Append(@, r.scope)])
         ELSE IF IndexedDiffers(At(items, i), new_item)
         THEN LET r == CreateRoot(m, new_item) IN
              IndexedLoop(new_items, i + 1,
                  IF r.m.st # "ok" THEN r.m
                  ELSE [r.m EXCEPT !.mapped = Put(@, i, r.value),
                                   !.scopes = Put(@, i, r.scope)])
         ELSE IndexedLoop(new_items, i + 1, m)

\* The body of the closure of map_indexed, on the list new_items.
IndexedUpdate(new_items) ==
    LET m0 == Machine("ok", mapped, scopes, counter, scopeCount, <<>>) IN
    IF new_items = <<>>
    THEN [m0 EXCEPT !.mapped = <<>>, !.scopes = <<>>]
    ELSE LET m1 == IndexedLoop(new_items, 0, m0)
             m2 == [m1 EXCEPT !.mapped = Truncate(@, Len(new_items)),
                              !.scopes = Truncate(@, Len(new_items))]
         IN IF m1.st # "ok" THEN m1 ELSE LengthsAssert(m2, new_items)

\* -------------------------------------------------------------- map_keyed
\* while start < end && items[start] == new_items[start] { start += 1 }
RECURSIVE SkipPrefix(_, _, _)
SkipPrefix(new_items, start, end) ==
    IF start < end /\ At(items, start) = At(new_items, start)
    THEN SkipPrefix(new_items, start + 1, end)
    ELSE start

\* debug_assert!(items[start] != new_items[start]): in a debug build both
\* vectors are indexed at start, whatever their lengths.
PrefixAssert(new_items, start) ==
    IF build # "debug" THEN "ok"
    ELSE IF ~InRange(items, start) \/ ~InRange(new_items, start) THEN "bounds"
    ELSE DebugAssert(At(items, start) # At(new_items, start))

\* The common-suffix loop: end and new_end are decremented before the output
\* and the scope at end are copied to new_end.
RECURSIVE SkipSuffix(_, _, _)
SkipSuffix(new_items, start, r) ==
    IF start < r.end /\ start < r.new_end /\ At(items, r.end) = At(new_items, r.new_end)
    THEN SkipSuffix(new_items, start,
             [end |-> r.end - 1,
              new_end |-> r.new_end - 1,
              temp |-> Put(r.temp, r.new_end - 1, Some(At(mapped, r.end - 1))),
              temp_scopes |-> Put(r.temp_scopes, r.new_end - 1, At(scopes, r.end - 1))])
    ELSE r

\* Step 0, for i in (start..=new_end).rev(): new_indices maps an item to its
\* first index in the range, new_indices_next chains the later ones (-1 at
\* the end of a chain).
RECURSIVE BuildIndices(_, _, _, _)
BuildIndices(new_items, start, i, r) ==
    IF i < start THEN r
    ELSE LET item == At(new_items, i)
             j == r.new_indices[item]
         IN BuildIndices(new_items, start, i - 1,
                [new_indices |-> [r.new_indices EXCEPT ![item] = Some(i)],
                 new_indices_next |->
                     Put(r.new_indices_next, i, IF j = None THEN -1 ELSE j[1])])

\* usize::MAX, the result of `-1 as usize`; it is only ever used as an
\* index, so any value above every vector length behaves the same.
UsizeMax == 2147483647
AsUsize(x) == IF x < 0 THEN UsizeMax ELSE x

MovedScopeFirst(sc, i) == At(sc, 0)
\* scopes[i].clone(), the scope that moves with the output of old item i.
MovedScope(sc, i) == At(sc, i)

\* Step 1, for i in start..=end: an old item found in new_indices hands its
\* output and scope to the index found and advances the chain; one that is
\* not found gives up its scope.
RECURSIVE MoveOld(_, _, _, _)
MoveOld(i, end, next, q) ==
    IF i > end \/ q.st # "ok" THEN q
    ELSE LET item == At(items, i)
             e == q.new_indices[item]
         IN IF e # None
            THEN LET j == e[1] IN
                 IF ~InRange(q.temp, j) THEN [q EXCEPT !.st = "bounds"]
                 ELSE MoveOld(i + 1, end, next,
                        [q EXCEPT !.temp = Put(@, j, Some(At(mapped, i))),
                                  !.temp_scopes = Put(@, j, MovedScope(q.scopes, i)),
                                  !.new_indices =
                                      [@ EXCEPT ![item] = Some(AsUsize(At(next, j)))]])
            ELSE MoveOld(i + 1, end, next, [q EXCEPT !.scopes = Put(@, i, None)])

TempGetIsSomeEntry(temp, i) == InRange(temp, i) /\ At(temp, i) # None
\* temp.get(i).is_some(): temp is a Vec<Option<U>>, so get(i) is Some for
\* every index the vector has, whatever the entry holds.
TempGetIsSome(temp, i) == InRange(temp, i)

\* Step 2, for i in start..new_items.len().
RECURSIVE SetNew(_, _, _, _, _)
SetNew(new_items, i, temp, temp_scopes, m) ==
    IF i >= Len(new_items) \/ m.st # "ok" THEN m
    ELSE IF TempGetIsSome(temp, i)
    THEN IF At(temp, i) = None THEN [m EXCEPT !.st = "unwrap"]
         ELSE IF ~InRange(m.mapped, i) \/ ~InRange(m.scopes, i)
         THEN [m EXCEPT !.st = "bounds"]
         ELSE SetNew(new_items, i + 1, temp, temp_scopes,
                  [m EXCEPT !.mapped = Put(@, i, At(temp, i)[1]),
                            !.scopes = Put(@, i, At(temp_scopes, i))])
    ELSE LET r == CreateRoot(m, At(new_items, i)) IN
         SetNew(new_items, i + 1, temp, temp_scopes,
             IF r.m.st # "ok" THEN r.m
             ELSE IF Len(m.mapped) > i
             THEN IF ~InRange(m.scopes, i) THEN [r.m EXCEPT !.st = "bounds"]
                  ELSE [r.m EXCEPT !.mapped = Put(@, i, r.value),
                                   !.scopes = Put(@, i, Some(r.scope))]
             ELSE [r.m EXCEPT !.mapped = Append(@, r.value),
                              !.scopes = Append(@, Some(r.scope))])

CreateNone(new_items, i, m) == m
\* Fast path for new create.
RECURSIVE CreateAll(_, _, _)
CreateAll(new_items, i, m) ==
    IF i >= Len(new_items) \/ m.st # "ok" THEN m
    ELSE LET r == CreateRoot(m, At(new_items, i)) IN
         CreateAll(new_items, i + 1,
             IF r.m.st # "ok" THEN r.m
             ELSE [r.m EXCEPT !.mapped = Append(@, r.value),
                              !.scopes = Append(@, Some(r.scope))])

\* The general case of map_keyed (iter.rs:40-127).
KeyedGeneral(new_items) ==
    LET m0 == Machine("ok", mapped, scopes, counter, scopeCount, <<>>)
        start == SkipPrefix(new_items, 0, IF Len(items) < Len(new_items)
                                          THEN Len(items) ELSE Len(new_items))
        asserted == PrefixAssert(new_items, start)
        sfx == SkipSuffix(new_items, start,
                   [end |-> Len(items) - 1, new_end |-> Len(new_items) - 1,
                    temp |-> Repeat(None, Len(new_items)),
                    temp_scopes |-> Repeat(None, Len(new_items))])
        idx0 == [new_indices |-> [x \in ItemVals |-> None],
                 new_indices_next |-> Repeat(0, sfx.new_end + 1)]
        idx == IF start < sfx.new_end
               THEN BuildIndices(new_items, start, sfx.new_end, idx0) ELSE idx0
        q0 == [st |-> "ok", temp |-> sfx.temp, temp_scopes |-> sfx.temp_scopes,
               new_indices |-> idx.new_indices, scopes |-> scopes]
        q == IF start < sfx.end
             THEN MoveOld(start, sfx.end, idx.new_indices_next, q0) ELSE q0
    IN IF asserted # "ok" THEN [m0 EXCEPT !.st = asserted]
       ELSE IF q.st # "ok" THEN [m0 EXCEPT !.st = q.st, !.scopes = q.scopes]
       ELSE SetNew(new_items, start, q.temp, q.temp_scopes,
                   [m0 EXCEPT !.scopes = q.scopes])

\* The body of the closure of map_keyed, on the list new_items.
KeyedUpdate(new_items) ==
    LET m0 == Machine("ok", mapped, scopes, counter, scopeCount, <<>>)
        m1 == IF new_items = <<>> THEN [m0 EXCEPT !.mapped = <<>>, !.scopes = <<>>]
              ELSE IF items = <<>> THEN CreateAll(new_items, 0, m0)
              ELSE KeyedGeneral(new_items)
        m2 == IF m1.st # "ok" THEN m1
              ELSE [m1 EXCEPT !.mapped = Truncate(@, Len(new_items)),
                              !.scopes = Truncate(@, Len(new_items))]
    IN LengthsAssert(m2, new_items)

\* --------------------------------------------------------------- the calls
\* The scopes a scopes vector refers to.
ScopeIds(sc) ==
    IF mode = "keyed" THEN {x[1] : x \in {y \in Range(sc) : y # None}} ELSE Range(sc)

\* History of one call of the closure: the list it was called on, the state
\* it started from, whether it returned and what, the items map_fn was
\* called on, and the scopes created and dropped.
TraceEntry(m) ==
    [list |-> list, items |-> items, mapped |-> mapped, scopes |-> scopes,
     st |-> m.st,
     out |-> IF m.st = "ok" THEN Some(m.mapped) ELSE None,
     invoked |-> m.invoked,
     created |-> (scopeCount + 1)..m.scopeCount,
     disposed |-> (ScopeIds(scopes) \cup (scopeCount + 1)..m.scopeCount)
                     \ ScopeIds(m.scopes),
     newMapped |-> m.mapped, newScopes |-> m.scopes]

\* The closure returns, or a panic unwinds out of it and ends the process:
\* mapped and scopes are written in place, items is replaced at the end of
\* an update only.
Finish(m) ==
    /\ status' = m.st
    /\ trace' = Append(trace, TraceEntry(m))
    /\ counter' = m.counter
    /\ scopeCount' = m.scopeCount
    /\ items' = IF m.st \in {"ok", "lengths"} THEN list ELSE items
    /\ mapped' = m.mapped
    /\ scopes' = m.scopes

\* The closure may be called on l: fewer than MaxCalls calls were made, or
\* the calls made and l follow a test of iter.rs.
MayCall(l) ==
    \/ Len(trace) < MaxCalls
    \/ \E sc \in TestScripts :
          /\ Len(trace) < Len(sc)
          /\ \A k \in 1..Len(trace) : trace[k].list = sc[k]
          /\ sc[Len(trace) + 1] = l

reactiveVars == <<avail, value, subscribers, dependencies, created, contexts,
                  stack, log, lastSet, observed, firstRead>>

\* a.set(l) at the top level; the source signal has no subscriber.  The top
\* level sets a new list once the closure has been called on the current
\* one, as the tests do.
ListSet(l) ==
    /\ Idle /\ mode # "-" /\ MayCall(l)
    /\ trace # <<>> /\ trace[Len(trace)].list = list /\ l # list
    /\ list' = l
    /\ value' = Update("L", l)
    /\ UNCHANGED <<avail, subscribers, dependencies, created, contexts, stack, log,
                   lastSet, observed, firstRead, status, build, mode, mapper,
                   items, mapped, scopes, counter, scopeCount, trace>>

\* mapped() at the top level, for the closure of map_keyed.
KeyedCall ==
    /\ Idle /\ mode = "keyed" /\ MayCall(list)
    /\ Finish(KeyedUpdate(list))
    /\ UNCHANGED <<reactiveVars, build, mode, mapper, list>>

\* mapped() at the top level, for the closure of map_indexed.
IndexedCall ==
    /\ Idle /\ mode = "indexed" /\ MayCall(list)
    /\ Finish(IndexedUpdate(list))
    /\ UNCHANGED <<reactiveVars, build, mode, mapper, list>>

\* ------------------------------------------- the closure inside an effect
UntrackTracking(deps, reads) ==
    IF contexts = <<>> THEN deps
    ELSE LET r == contexts[Len(contexts)] IN
         [deps EXCEPT ![r] = IF reads \subseteq Range(@) THEN @
                             ELSE Append(@, CHOOSE x \in reads : x \notin Range(@))]
\* untrack(|| ...): the dependency records after the closure, given the
\* records before it and the signals get() was called on inside it.
Untrack(deps, reads) == deps

\* The effect's closure calls mapped(): list.get(), then the update inside
\* untrack.
BodyMapped ==
    /\ InBody /\ CurOp.op = "mapped"
    /\ LET c == Top.comp
           s == CurOp.sig
           m == IF mode = "keyed" THEN KeyedUpdate(list) ELSE IndexedUpdate(list)
       IN /\ dependencies' = Untrack(TrackedDependencies(s),
                                     IF m.invoked # <<>> THEN MapFnReads ELSE {})
          /\ Finish(m)
          /\ stack' = WithTop([Top EXCEPT !.pc = @ + 1])
          /\ observed' = [observed EXCEPT
                 ![c] = {p \in @ : p[1] # s} \cup {<<s, GetUntracked(s)>>}]
          /\ firstRead' = [firstRead EXCEPT ![s] = IF c \in Range(@) THEN @ ELSE Append(@, c)]
    /\ UNCHANGED <<avail, value, subscribers, created, contexts, log, lastSet,
                   build, mode, mapper, list>>

\* a.set(l) at the top level, for the source list of the closure an effect
\* calls; a write that would call the closure once more than MaxCalls times
\* is not made.
WriteList(l) ==
    /\ Idle /\ mode # "-"
    /\ Len(trace) < MaxCalls \/ "Emap" \notin Range(subscribers["L"])
    /\ SignalSet("L", l, stack)
    /\ list' = l
    /\ UNCHANGED <<avail, subscribers, dependencies, created, contexts, observed,
                   firstRead, build, mode, mapper, items, mapped, scopes, counter,
                   scopeCount, trace>>

\* ---------------------------------------------------------- specification
Init ==
    /\ avail \in Programs
    /\ list = IF "Emap" \in avail THEN ScriptAppend[1] ELSE <<>>
    /\ value \in {[s \in Signals |-> IF s \in UserSignals \cap ProgramSignals THEN u[s]
                                     ELSE IF s \in ListSignals THEN list ELSE 0] :
                     u \in [UserSignals -> Vals]}
    /\ subscribers = [s \in Signals |-> <<>>]
    /\ dependencies = [c \in Comps |-> <<>>]
    /\ created = {}
    /\ contexts = <<>>
    /\ stack = <<>>
    /\ status = "ok"
    /\ log = <<>>
    /\ lastSet = [s \in Signals |-> <<>>]
    /\ observed = [c \in Comps |-> {}]
    /\ firstRead = [s \in Signals |-> <<>>]
    /\ build \in (IF "Emap" \in avail THEN {"debug", "release"} ELSE {"debug"})
    /\ mode \in (IF "Emap" \in avail THEN {"keyed", "indexed"} ELSE {"-"})
    /\ mapper = (IF "Emap" \in avail THEN "reads" ELSE "-")
    /\ items = <<>> /\ mapped = <<>> /\ scopes = <<>>
    /\ counter = 0 /\ scopeCount = 0 /\ trace = <<>>

Next ==
    \/ \E s \in UserSignals, v \in Vals : Write(s, v)
    \/ \E l \in Range(ScriptAppend) : WriteList(l)
    \/ \E e \in Effects : CreateEffect(e)
    \/ \E m \in Memos : CreateMemo(m)
    \/ Notify
    \/ SetReturn
    \/ EffectStart
    \/ BodyGet
    \/ BodyGetUntracked
    \/ BodySet
    \/ BodyMapped
    \/ BodyCreate
    \/ EffectAttach
    \/ EffectReturn
    \/ MemoInitAttach
    \/ MemoCompare
    \/ MemoReturn

Spec == Init /\ [][Next]_vars

\* let a = Signal::new(list); let mapped = map_keyed(a.handle(), map_fn), or
\* map_indexed, in a debug or a release build.
InitList ==
    /\ avail = {}
    /\ list \in Lists
    /\ value = [s \in Signals |-> IF s \in ListSignals THEN list ELSE 0]
    /\ subscribers = [s \in Signals |-> <<>>]
    /\ dependencies = [c \in Comps |-> <<>>]
    /\ created = {}
    /\ contexts = <<>>
    /\ stack = <<>>
    /\ status = "ok"
    /\ log = <<>>
    /\ lastSet = [s \in Signals |-> <<>>]
    /\ observed = [c \in Comps |-> {}]
    /\ firstRead = [s \in Signals |-> <<>>]
    /\ build \in {"debug", "release"}
    /\ mode \in {"keyed", "indexed"}
    /\ mapper \in Mappers
    /\ items = <<>> /\ mapped = <<>> /\ scopes = <<>>
    /\ counter = 0 /\ scopeCount = 0 /\ trace = <<>>

NextList ==
    \/ \E l \in Lists : ListSet(l)
    \/ KeyedCall
    \/ IndexedCall

SpecList == InitList /\ [][NextList]_vars

\* The same, with a map function that fails on an item.
InitFailing ==
    /\ avail = {}
    /\ list \in Lists
    /\ value = [s \in Signals |-> IF s \in ListSignals THEN list ELSE 0]
    /\ subscribers = [s \in Signals |-> <<>>]
    /\ dependencies = [c \in Comps |-> <<>>]
    /\ created = {}
    /\ contexts = <<>>
    /\ stack = <<>>
    /\ status = "ok"
    /\ log = <<>>
    /\ lastSet = [s \in Signals |-> <<>>]
    /\ observed = [c \in Comps |-> {}]
    /\ firstRead = [s \in Signals |-> <<>>]
    /\ build \in {"debug", "release"}
    /\ mode \in {"keyed", "indexed"}
    /\ mapper = "fails"
    /\ items = <<>> /\ mapped = <<>> /\ scopes = <<>>
    /\ counter = 0 /\ scopeCount = 0 /\ trace = <<>>

SpecFailing == InitFailing /\ [][NextList]_vars

\* ------------------------------------------------------------- properties
Count(q, x) == Cardinality({i \in 1..Len(q) : q[i] = x})
Pos(q, x) == CHOOSE i \in 1..Len(q) : q[i] = x
SetFrames == {i \in 1..Len(stack) : stack[i].kind = "set"}
AtSetReturn == Active /\ Top.kind = "set" /\ ~HasNext(Top)

\* C1: for every signal that has been written, get_untracked (and so get)
\* returns the value passed to the most recent set, whether the set was a
\* top-level write or one made by a computation during a notification.
C1_ReadReturnsLastWrite ==
    \A s \in Signals : lastSet[s] # <<>> => GetUntracked(s) = lastSet[s][1]

\* A write made by an effect's body during the notification of another
\* write has just been stored.
C1_Witness ==
    /\ Active /\ Len(stack) >= 3
    /\ Top.kind = "set" /\ Top.sig = "B" /\ Top.pc = 1
    /\ stack[1].kind = "set" /\ stack[1].sig = "A"
    /\ lastSet["B"] = <<value["B"]>> /\ value["B"] # 0

\* C2: when Signal::set(v) is about to return, every effect that read the
\* signal in its latest run has been re-run by this write and observed v.
C2_WriteRerunsEveryReader ==
    AtSetReturn =>
        \A e \in Top.readers :
            /\ e \in Range(Top.invoked)
            /\ <<Top.sig, Top.val>> \in observed[e]

\* C3: the conditional effect is invoked by a write to a signal only if its
\* latest run read that signal, and a write to a signal its latest run read
\* does invoke it.
C3_DependenciesRebuilt ==
    /\ (Active /\ Top.kind = "run" /\ Top.comp = "Ecnd" /\ Top.pc = 0 /\ Top.sig # "-")
          => \E p \in observed["Ecnd"] : p[1] = Top.sig
    /\ (AtSetReturn /\ "Ecnd" \in Top.readers) => "Ecnd" \in Range(Top.invoked)

\* C4: a re-run of the effect whose body reads and writes signal A, caused by
\* a write to A, does not get past the body's own write: that write fails
\* with the cyclic-dependency failure.
C4_CyclicWriteRejected ==
    \A i \in 1..Len(stack) :
        (stack[i].kind = "run" /\ stack[i].comp = "Ecyc" /\ stack[i].sig = "A"
            /\ stack[i].pc > 2)
        => status = "cyclic"

AtCreateReturn(e) ==
    /\ Active /\ Len(stack) = 1 /\ Top.kind = "run" /\ Top.comp = e
    /\ Top.sig = "-" /\ Top.pc = Len(Body(e)) + 2

\* C5: when create_effect is about to return, the body has run exactly once
\* and the effect is a subscriber of every signal that run read.
C5_CreateRunsOnceAndSubscribes ==
    \A e \in Effects :
        AtCreateReturn(e) =>
            /\ Count(log, <<"run", e>>) = 1
            /\ \A p \in observed[e] : e \in Range(subscribers[p[1]])

\* create_effect of an effect that read two signals is about to return.
C5_Witness ==
    /\ AtCreateReturn("Eab")
    /\ {p[1] : p \in observed["Eab"]} = {"A", "B"}

\* C6: the effect that calls get() twice on A is in A's subscriber list at
\* most once, and a write to A made after a run of it calls it exactly once.
C6_DoubleGetRerunOnce ==
    /\ Count(subscribers["A"], "Eonce") <= 1
    /\ (AtSetReturn /\ Top.sig = "A" /\ "Eonce" \in Top.readers)
          => Count(Top.invoked, "Eonce") = 1

\* C7 as stated: the subscribers of a signal are invoked in the order in
\* which the computations first read the signal, on every write.
C7_FirstReadOrder ==
    \A k \in SetFrames :
        LET f == stack[k] IN
        \A i, j \in 1..Len(f.invoked) :
            (i < j /\ f.invoked[i] \in Range(firstRead[f.sig])
                   /\ f.invoked[j] \in Range(firstRead[f.sig]))
            => Pos(firstRead[f.sig], f.invoked[i]) < Pos(firstRead[f.sig], f.invoked[j])

\* C7 amended: the subscribers are invoked in the order of the signal's
\* subscriber list as it stood when the value was stored.
C7_SubscriberListOrder ==
    \A k \in SetFrames :
        LET f == stack[k] IN
        \A i, j \in 1..Len(f.invoked) :
            i < j =>
                /\ f.invoked[i] \in Range(f.atStore)
                /\ f.invoked[j] \in Range(f.atStore)
                /\ Pos(f.atStore, f.invoked[i]) < Pos(f.atStore, f.invoked[j])

\* A write has invoked two subscribers, in the reverse of the order in
\* which they first read the signal.
C7_Witness ==
    \E k \in SetFrames :
        /\ Len(stack[k].invoked) = 2
        /\ stack[k].invoked[1] \in Range(firstRead[stack[k].sig])
        /\ stack[k].invoked[2] \in Range(firstRead[stack[k].sig])
        /\ Pos(firstRead[stack[k].sig], stack[k].invoked[2])
             < Pos(firstRead[stack[k].sig], stack[k].invoked[1])

\* C8: when Signal::set is about to return, the callbacks it has invoked
\* are exactly the subscriber list as it was right after the store, each
\* once, whatever was subscribed or unsubscribed in between.
C8_InvokesSnapshot ==
    AtSetReturn => Top.invoked = Top.atStore

\* A write of two subscribers is about to return although the subscriber
\* list changed while it was notifying.
C8_Witness ==
    /\ AtSetReturn /\ Len(Top.atStore) = 2
    /\ subscribers[Top.sig] # Top.atStore

\* The calls of the log that have not returned, innermost last; a return
\* that does not match the innermost open call yields <<"bad">>.
OpenCalls ==
    LET open[i \in 0..Len(log)] ==
          IF i = 0 THEN <<>>
          ELSE LET prev == open[i - 1]
                   ev == log[i]
               IN IF prev = <<"bad">> THEN prev
                  ELSE IF ev[1] = "derive" THEN prev
                  ELSE IF ev[1] \in {"set", "run"} THEN Append(prev, ev)
                  ELSE IF prev # <<>>
                          /\ prev[Len(prev)] = <<(IF ev[1] = "setret" THEN "set" ELSE "run"), ev[2]>>
                       THEN SubSeq(prev, 1, Len(prev) - 1)
                       ELSE <<"bad">>
    IN open[Len(log)]

FrameEvent(f) == IF f.kind = "set" THEN <<"set", f.sig>> ELSE <<"run", f.comp>>

\* C9: notification is depth-first: calls and returns of writes and of
\* subscriber runs are properly nested, so the notification started by a
\* subscriber's write is over before that subscriber returns and before the
\* next subscriber of the outer write is invoked; the calls still open are
\* exactly the chain of callers.
C9_DepthFirst ==
    status = "ok" =>
        /\ OpenCalls = [i \in 1..Len(stack) |-> FrameEvent(stack[i])]
        /\ (Active /\ Top.kind = "run" /\ Top.pc = 0 /\ Len(stack) = 2
                /\ stack[1].kind = "set" /\ stack[1].pc > 2)
             => log[Len(log) - 1] = <<"ret", stack[1].invoked[stack[1].pc - 2]>>

\* The second subscriber of a write to A is being invoked after the first
\* one wrote B and B's subscriber was re-run by that write.
C9_Witness ==
    /\ Active /\ Len(stack) = 2 /\ stack[1].kind = "set" /\ stack[1].sig = "A"
    /\ Top.kind = "run" /\ Top.pc = 0 /\ stack[1].pc = 3
    /\ \E i, j, k \in 1..Len(log) :
          /\ i < j /\ j < k
          /\ log[i] = <<"set", "B">>
          /\ log[j] = <<"ret", "Eab">>
          /\ log[k] = <<"setret", "B">>

\* The value derive returns on the current values of the signals.
RECURSIVE EvalFrom(_, _, _)
EvalFrom(c, i, acc) ==
    IF i > Len(Body(c)) THEN acc
    ELSE LET op == Body(c)[i]
             s == IF op.op = "getif" /\ acc = 0 THEN op.alt ELSE op.sig
         IN EvalFrom(c, i + 1, value[s])
Derived(m) == Apply(ResultFn(m), EvalFrom(m, 1, 0))

\* C10: whenever no write is in progress, the value of every memo is its
\* derive function applied to the current values of the signals it reads.
C10_MemoIsDerived ==
    Idle => \A m \in created \cap Memos : value[MemoSignal(m)] = Derived(m)

\* The memo's callback or create_effect_initial has been called and derive
\* has not been entered yet.
DerivePending(m) ==
    /\ stack # <<>> /\ Top.kind \in {"init", "memo"} /\ Top.comp = m /\ Top.pc = 1

\* C11: within a top-level call, the derive closure of a memo has been
\* entered exactly once for every call of create_effect_initial and every
\* notification delivered to the memo's callback; nothing else, a read of
\* the memo included, enters it.
C11_DeriveOncePerNotification ==
    \A m \in Memos :
        Count(log, <<"derive", m>>) =
            Count(log, <<"run", m>>) - (IF DerivePending(m) THEN 1 ELSE 0)

\* A write to A re-ran M1's derive once, and M2 has read the memo since.
C11_Witness ==
    /\ Active /\ stack[1].kind = "set" /\ stack[1].sig = "A"
    /\ Top.kind = "memo" /\ Top.comp = "M2" /\ Top.pc = 2
    /\ <<"mM1", value["mM1"]>> \in observed["M2"]
    /\ Count(log, <<"derive", "M1">>) = 1

LastPos(q, x) ==
    IF \E i \in 1..Len(q) : q[i] = x
    THEN CHOOSE i \in 1..Len(q) : q[i] = x /\ \A j \in (i + 1)..Len(q) : q[j] # x
    ELSE 0

\* The selector's callback is past its comparison.
AfterCompare(m) ==
    /\ Active /\ Top.kind = "memo" /\ Top.comp = m /\ Top.pc = Len(Body(m)) + 2

\* On a re-run that derived the previous value again the selector's signal is
\* not set; on a re-run that derived another value it is set, and the set
\* has invoked the subscribers of the selector.
C12_NotifiesIffChanged ==
    \A m \in Selectors :
        /\ AfterCompare(m) =>
              IF Apply(ResultFn(m), Top.acc) = Top.val
              THEN LastPos(log, <<"set", MemoSignal(m)>>) < LastPos(log, <<"run", m>>)
              ELSE /\ log[Len(log)] = <<"setret", MemoSignal(m)>>
                   /\ value[MemoSignal(m)] = Apply(ResultFn(m), Top.acc)
        /\ (AtSetReturn /\ Top.sig = MemoSignal(m)) => Top.invoked = Top.atStore

\* C12: a selector created by create_selector re-runs its derive on every
\* write to the signal derive reads, re-runs its subscribers when the newly
\* derived value differs from the previous one and does not when it is equal.
C12_SelectorRerunsOnEveryWrite ==
    /\ C12_NotifiesIffChanged
    /\ \A m \in Selectors \cap created :
          (AtSetReturn /\ Top.sig \in {Body(m)[i].sig : i \in 1..Len(Body(m))})
              => m \in Range(Top.invoked)

\* C13 as stated: when the comparator returns true on a re-run, the newly
\* derived value is the selector's value afterwards and the selector's
\* signal has not been set, so no subscriber was re-run.
C13_EqualValueStored ==
    \A m \in Memos :
        (AfterCompare(m) /\ Comparator(m, Top.val, Apply(ResultFn(m), Top.acc)))
        => /\ value[MemoSignal(m)] = Apply(ResultFn(m), Top.acc)
           /\ LastPos(log, <<"set", MemoSignal(m)>>) < LastPos(log, <<"run", m>>)

\* C13 amended: when the comparator returns true on a re-run, the selector
\* keeps its previous value, the newly derived one is dropped, and the
\* selector's signal has not been set, so no subscriber was re-run.
C13_EqualValueDropped ==
    \A m \in Memos :
        (AfterCompare(m) /\ Comparator(m, Top.val, Apply(ResultFn(m), Top.acc)))
        => /\ value[MemoSignal(m)] = Top.val
           /\ LastPos(log, <<"set", MemoSignal(m)>>) < LastPos(log, <<"run", m>>)

\* The custom comparator has just called a newly derived value equal to a
\* previous value that differs from it, with an effect subscribed.
C13_Witness ==
    /\ AfterCompare("S2") /\ "Es2" \in Range(subscribers["mS2"])
    /\ Apply(ResultFn("S2"), Top.acc) # Top.val
    /\ Comparator("S2", Top.val, Apply(ResultFn("S2"), Top.acc))

\* The closure of c calls get_untracked on s and never get.
ReadsOnlyUntracked(c, s) ==
    /\ \E i \in 1..Len(Body(c)) : Body(c)[i].op = "getu" /\ Body(c)[i].sig = s
    /\ \A i \in 1..Len(Body(c)) :
          Body(c)[i].op \in {"get", "getif"} => s \notin {Body(c)[i].sig, Body(c)[i].alt}

\* A call of get_untracked changes no subscriber list and no dependency record.
GetUntrackedFrame == [][BodyGetUntracked => UNCHANGED <<subscribers, dependencies>>]_vars

\* The computations that call get_untracked on s and never get are not in
\* the subscriber list of s unless a tracked read of s by another closure
\* was recorded in their Running.
UntrackedNotSubscribed ==
    \A c \in Comps \ {"Eu"}, s \in Signals :
        ReadsOnlyUntracked(c, s) => c \notin Range(subscribers[s])

\* C14: a computation whose closure reads a signal only through
\* get_untracked is never invoked by a write to that signal.
C14_UntrackedNeverRerun ==
    \A c \in Comps, s \in Signals :
        ReadsOnlyUntracked(c, s) =>
            \A i \in 1..Len(stack) :
                (stack[i].kind \in {"run", "memo"} /\ stack[i].comp = c)
                    => stack[i].sig # s

\* C15: every re-run of a memo created by create_memo sets the memo's
\* signal to the newly derived value, whether or not it equals the previous
\* one, and that set invokes every subscriber the memo's signal had.
C15_MemoAlwaysNotifies ==
    \A m \in Memos \ (Selectors \cup SelectorsWith) :
        /\ AfterCompare(m) =>
              /\ log[Len(log)] = <<"setret", MemoSignal(m)>>
              /\ value[MemoSignal(m)] = Apply(ResultFn(m), Top.acc)
        /\ (AtSetReturn /\ Top.sig = MemoSignal(m)) => Top.invoked = Top.atStore

\* A re-run of M1 derived the value it already had, and its subscriber M2
\* has been re-run by it.
C15_Witness ==
    /\ AfterCompare("M1") /\ Top.val = Apply(ResultFn("M1"), Top.acc)
    /\ LastPos(log, <<"run", "M2">>) > LastPos(log, <<"set", "mM1">>)
    /\ LastPos(log, <<"set", "mM1">>) > LastPos(log, <<"run", "M1">>)

\* ------------------------------------------------- properties, iter.rs
Double(l) == [i \in 1..Len(l) |-> l[i] * 2]
KeyedCalls == IF mode = "keyed" THEN 1..Len(trace) ELSE {}
IndexedCalls == IF mode = "indexed" THEN 1..Len(trace) ELSE {}

\* Every call of the closure of map_keyed that returns, returns the map of
\* the list it was called on (for the pure map function).
KeyedReturnedIsMapped ==
    mapper = "double" =>
        \A k \in KeyedCalls : trace[k].st = "ok" => trace[k].out = Some(Double(trace[k].list))

\* C16: with the pure map function |x| x * 2, every call of the closure of
\* map_keyed returns, and returns the list of f(x) for the items x of the
\* current list, in order, whatever lists came before.
C16_KeyedMapsCurrentList ==
    mapper = "double" =>
        \A k \in KeyedCalls :
            trace[k].st = "ok" /\ trace[k].out = Some(Double(trace[k].list))

\* C17: a call of the closure of map_keyed on a list that extends the
\* previous, non-empty list returns the previous outputs followed by one
\* new output per appended item, and has called map_fn on the appended
\* items and on nothing else.
C17_KeyedAppend ==
    \A k \in KeyedCalls :
        LET t == trace[k] IN
        (t.items # <<>> /\ IsPrefix(t.items, t.list) /\ t.items # t.list) =>
            /\ t.st = "ok"
            /\ t.invoked = SubSeq(t.list, Len(t.items) + 1, Len(t.list))
            /\ IsPrefix(t.mapped, t.out[1]) /\ Len(t.out[1]) = Len(t.list)

\* The outputs tests::keyed_use_previous_computation expects.
C18_Expected == << <<1, 2, 3>>, <<1, 2>>, <<1, 2, 4>>, <<1, 2, 5, 4>> >>

\* C18: with the counting map function, the closure of map_keyed called on
\* [1,2,3], [1,2], [1,2,4], [1,2,3,4] in turn returns [1,2,3], [1,2],
\* [1,2,4], [1,2,5,4].
C18_KeyedReusesOutputs ==
    (mode = "keyed" /\ mapper = "counter" /\ Len(trace) <= Len(ScriptKeyedPrevious)
        /\ \A k \in 1..Len(trace) : trace[k].list = ScriptKeyedPrevious[k])
    => \A k \in 1..Len(trace) : trace[k].out = Some(C18_Expected[k])

\* C19: a call of the closure of map_keyed on a list equal to the previous
\* one returns, leaves the outputs and the scopes as they were, calls
\* map_fn on nothing and creates and drops no scope.
C19_KeyedIdentical ==
    \A k \in KeyedCalls :
        LET t == trace[k] IN
        t.list = t.items =>
            /\ t.st = "ok" /\ t.out = Some(t.mapped)
            /\ t.newMapped = t.mapped /\ t.newScopes = t.scopes
            /\ t.invoked = <<>> /\ t.created = {} /\ t.disposed = {}

\* C20: with the pure map function |x| x * 2, every call of the closure of
\* map_indexed returns the list of f(x) for the items x of the current list,
\* in order.
C20_IndexedMapsCurrentList ==
    mapper = "double" =>
        \A k \in IndexedCalls :
            trace[k].st = "ok" /\ trace[k].out = Some(Double(trace[k].list))

\* A call of the closure of map_indexed kept one output, replaced another
\* and appended a third.
C20_Witness ==
    /\ mode = "indexed" /\ mapper = "double" /\ Len(trace) >= 2
    /\ LET t == trace[Len(trace)] IN
         /\ Len(t.items) = 2 /\ Len(t.list) = 3
         /\ t.items[1] = t.list[1] /\ t.items[2] # t.list[2]
         /\ t.invoked = <<t.list[2], t.list[3]>>
         /\ t.out = Some(Double(t.list))

\* The indices of a map_indexed update at which the item is mapped: those
\* the previous list lacks and those where it holds another item.
IndexedFresh(t) ==
    {i \in 1..Len(t.list) : i > Len(t.items) \/ t.items[i] # t.list[i]}

\* The members of a set of indices, in increasing order.
RECURSIVE Ascending(_)
Ascending(S) ==
    IF S = {} THEN <<>>
    ELSE LET lo == CHOOSE i \in S : \A j \in S : i <= j
         IN <<lo>> \o Ascending(S \ {lo})

\* C21: in every update of map_indexed, map_fn is called exactly on the
\* items at the indices the previous list lacks or holds another item at, in
\* order, each in a scope created by this update; the scopes dropped are
\* exactly the old scopes at replaced indices and at the indices cut off by
\* shrinking; at every other index the output and the scope are the
\* previous ones of that same index.
C21_IndexedPerIndex ==
    \A k \in IndexedCalls :
        LET t == trace[k]
            fresh == IndexedFresh(t)
        IN /\ t.st = "ok"
           /\ Len(t.newMapped) = Len(t.list) /\ Len(t.newScopes) = Len(t.list)
           /\ t.invoked = [n \in 1..Cardinality(fresh) |-> t.list[Ascending(fresh)[n]]]
           /\ t.created = {t.newScopes[i] : i \in fresh}
           /\ Cardinality(t.created) = Cardinality(fresh)
           /\ t.disposed = {t.scopes[i] : i \in {j \in 1..Len(t.items) :
                                                  j > Len(t.list) \/ j \in fresh}}
           /\ \A i \in (1..Len(t.list)) \ fresh :
                 t.newMapped[i] = t.mapped[i] /\ t.newScopes[i] = t.scopes[i]
           /\ mapper = "counter" =>
                 \A i \in fresh : \A j \in 1..Len(t.mapped) : t.newMapped[i] # t.mapped[j]

\* The last call of tests::indexed_use_previous_computation: the outputs at
\* the first and third index are kept, the second is mapped again.
C21_Witness ==
    /\ mode = "indexed" /\ mapper = "counter" /\ trace # <<>>
    /\ LET t == trace[Len(trace)] IN
         /\ t.items = <<1, 2, 4>> /\ t.list = <<1, 3, 4>>
         /\ t.out = Some(<<1, 5, 4>>)
         /\ Cardinality(t.disposed) = 1

\* C22: for both reconcilers, a call on an empty list returns the empty
\* vector and drops every scope the closure held; a call made with no
\* previous items on a non-empty list calls map_fn on every item, in order,
\* and gives each output a scope of its own created by this call.
C22_EmptyFastPaths ==
    \A k \in 1..Len(trace) :
        LET t == trace[k] IN
        /\ t.list = <<>> =>
              /\ t.st = "ok" /\ t.out = Some(<<>>)
              /\ t.newScopes = <<>> /\ t.disposed = ScopeIds(t.scopes)
        /\ (t.items = <<>> /\ t.list # <<>>) =>
              /\ t.st = "ok" /\ t.invoked = t.list
              /\ Len(t.out[1]) = Len(t.list) /\ Len(t.newScopes) = Len(t.list)
              /\ ScopeIds(t.newScopes) = t.created
              /\ Cardinality(t.created) = Len(t.list)
              /\ t.disposed = {}

\* tests::keyed_clear: the closure of map_keyed created three outputs from
\* nothing and has now been called on the empty list.
C22_Witness ==
    /\ mode = "keyed" /\ Len(trace) = 2
    /\ trace[1].items = <<>> /\ trace[1].list = <<1, 2, 3>>
    /\ trace[2].list = <<>> /\ Cardinality(trace[2].disposed) = 3

\* C23: an effect that calls the closure returned by map_indexed or
\* map_keyed is subscribed to the source list signal and is re-run exactly
\* once by every write to it, and the update itself, map function reads
\* included, adds no other dependency to the effect.
C23_ClosureEffectFollowsList ==
    /\ (Idle /\ "Emap" \in created) => "Emap" \in Range(subscribers["L"])
    /\ (AtSetReturn /\ Top.sig = "L" /\ "Emap" \in Top.readers)
           => Count(Top.invoked, "Emap") = 1
    /\ Range(dependencies["Emap"]) \subseteq {"L"}
    /\ \A s \in Signals \ {"L"} : "Emap" \notin Range(subscribers[s])

\* The part of C23 about the update: inside the closure nothing but the
\* source list is recorded for the calling effect.
ClosureReadsUntracked ==
    /\ Range(dependencies["Emap"]) \subseteq {"L"}
    /\ \A s \in Signals \ {"L"} : "Emap" \notin Range(subscribers[s])

\* C24: when the mapping function fails during an update of map_keyed or
\* map_indexed, the previous-state arrays items, mapped and scopes are left
\* exactly as they were before the update.
C24_FailedUpdateKeepsState ==
    (trace # <<>> /\ trace[Len(trace)].st = "mapfn") =>
        LET t == trace[Len(trace)] IN
        /\ items = t.items
        /\ mapped = t.mapped
        /\ scopes = t.scopes

\* C25: with a mapping function that does not fail, every update of
\* map_keyed completes without failure, whatever the previous and the new
\* list (one a prefix of the other, a common suffix, new positions without
\* a matching old item, more occurrences of a value in the old list).
C25_KeyedUpdateCompletes ==
    \A k \in KeyedCalls : trace[k].st = "ok"

\* The frames of effect runs whose closure has not returned to the attach
\* loop's end: between cleanup_running and the subscriptions.
RunningBodies ==
    {i \in 1..Len(stack) :
        stack[i].kind = "run" /\ stack[i].pc >= 1
                              /\ stack[i].pc <= Len(Body(stack[i].comp)) + 1}

\* C26: an effect run first unsubscribes the effect from every previous
\* dependency and clears its record, and subscribes it only after the body
\* returned; so while its body runs the effect is in no subscriber list and
\* a write made by the body does not re-enter the same effect.
C26_BodyRunsUnsubscribed ==
    /\ \A i \in RunningBodies : \A s \in Signals :
           stack[i].comp \notin Range(subscribers[s])
    /\ \A i, j \in RunningBodies : stack[i].comp = stack[j].comp => i = j

\* C27: a memo rebuilds its dependencies on every re-run.  M5's derive reads
\* B only when A is true: a top-level write to B re-runs the memo exactly
\* when A is true at the time of the write.
C27_MemoDependenciesRebuilt ==
    (AtSetReturn /\ Len(stack) = 1 /\ Top.sig = "B" /\ "M5" \in created) =>
        ("M5" \in Range(Top.invoked) <=> value["A"] # 0)

\* C28: SignalInner::unsubscribe(h) removes exactly h from the subscriber
\* list and leaves every other subscriber in place, in the original order;
\* when h is not a subscriber the list is unchanged.  Checked on every
\* cleanup_running step, which calls it for each recorded dependency.
C28_UnsubscribeRemovesOnlyHandler ==
    [][(Active /\ Top.kind = "run" /\ Top.pc = 0) =>
          \A s \in Signals :
              subscribers'[s] =
                  IF s \in Range(dependencies[Top.comp])
                  THEN SelectSeq(subscribers[s], LAMBDA x : x # Top.comp)
                  ELSE subscribers[s]]_vars

\* The frames whose computation has a Running on CONTEXTS: an effect run
\* between its push and its pop, a memo's initial run.
InContext ==
    {i \in 1..Len(stack) :
        \/ stack[i].kind = "init"
        \/ stack[i].kind = "run" /\ stack[i].pc >= 1
                                 /\ stack[i].pc <= Len(Body(stack[i].comp)) + 1}

\* C29: the depth of the context stack after a computation ran equals the
\* depth before it, for every effect run and every initial run of a memo,
\* however nested: the 'context size should not change' assertion never
\* fails, and the stack is empty whenever no computation is executing.
C29_ContextDepthBalanced ==
    /\ Idle => contexts = <<>>
    /\ (Active /\ Top.kind = "run" /\ Top.pc = Len(Body(Top.comp)) + 2)
           => Len(contexts) = Top.size
    /\ status = "ok" =>
           /\ Len(contexts) = Cardinality(InContext)
           /\ \A i \in InContext :
                  /\ stack[i].size = Cardinality({j \in InContext : j < i})
                  /\ contexts[stack[i].size + 1] = stack[i].comp

\* An effect created inside the closure of another returns with the outer
\* Running alone on the context stack.
C29_Witness ==
    /\ Active /\ Top.kind = "run" /\ Top.comp = "Ein"
    /\ Top.pc = Len(Body("Ein")) + 2
    /\ Top.size = 1 /\ contexts = <<"Eout">>

\* C30: when an effect or a memo is created inside the running body of
\* another computation, the signals the inner run reads become dependencies
\* of the inner computation only, and the signals the outer body reads after
\* the inner one returned become dependencies of the outer one only.
C30_NestedReadsSeparate ==
    /\ Range(dependencies["Ein"]) \subseteq {"C"}
    /\ Range(dependencies["M6"]) \subseteq {"C"}
    /\ Range(dependencies["Eout"]) \subseteq {"A", "B"}
    /\ \A s \in {"A", "B"} : {"Ein", "M6"} \cap Range(subscribers[s]) = {}
    /\ "Eout" \notin Range(subscribers["C"])
    /\ \A i \in 1..Len(stack) :
           /\ (stack[i].comp = "Ein" /\ stack[i].kind = "run" /\ stack[i].pc >= 2)
                  => dependencies["Ein"] = <<"C">>
           /\ (stack[i].comp = "M6" /\ stack[i].kind = "init" /\ stack[i].pc >= 2)
                  => dependencies["M6"] = <<"C">>
           /\ (stack[i].comp = "Eout" /\ stack[i].kind = "run" /\ stack[i].pc >= 5)
                  => dependencies["Eout"] = <<"A", "B">>
    /\ (Idle /\ "Eout" \in created) =>
           /\ dependencies["Eout"] = <<"A", "B">>
           /\ dependencies["Ein"] = <<"C">>

\* The outer closure is about to read B after both inner computations ran
\* and subscribed to C.
C30_Witness ==
    /\ Active /\ Top.kind = "run" /\ Top.comp = "Eout" /\ Top.pc = 4
    /\ contexts = <<"Eout">>
    /\ dependencies["Eout"] = <<"A">>
    /\ subscribers["C"] = <<"Ein", "M6">>

NoDuplicates(q) == \A i, j \in 1..Len(q) : q[i] = q[j] => i = j

\* C31: every signal's subscriber list and every computation's dependency
\* record holds each entry at most once, in every reachable state.
C31_NoDuplicateEntries ==
    /\ \A s \in Signals : NoDuplicates(subscribers[s])
    /\ \A c \in Comps : NoDuplicates(dependencies[c])

\* An effect that reads the same signal twice is re-run while it is already
\* in the signal's subscriber list, and has read the signal twice.
C31_Witness ==
    /\ Active /\ Top.kind = "run" /\ Top.comp = "Eonce" /\ Top.sig = "A"
    /\ Top.pc = Len(Body("Eonce")) + 1
    /\ dependencies["Eonce"] = <<"A">>
    /\ "Eonce" \in Range(subscribers["A"])

\* The length of the common prefix of two lists.
CommonPrefix(a, b) ==
    LET n == IF Len(a) < Len(b) THEN Len(a) ELSE Len(b)
        P == {p \in 0..n : \A i \in 1..p : a[i] = b[i]}
    IN CHOOSE p \in P : \A r \in P : r <= p

\* The length of the common suffix of two lists once p leading items are
\* set aside.
CommonSuffix(a, b, p) ==
    LET n == (IF Len(a) < Len(b) THEN Len(a) ELSE Len(b)) - p
        Q == {q \in 0..n : \A k \in 0..(q - 1) : a[Len(a) - k] = b[Len(b) - k]}
    IN CHOOSE q \in Q : \A r \in Q : r <= q

\* The calls of the closure of map_keyed that take the general case.
KeyedGeneralCalls == {k \in KeyedCalls : trace[k].items # <<>> /\ trace[k].list # <<>>}

\* C32: in a map_keyed update the items of the common suffix keep their
\* outputs and scopes, at their new indices, and the mapping function is
\* not invoked for them.
C32_KeyedSuffixKept ==
    \A n \in KeyedGeneralCalls :
        LET t == trace[n]
            p == CommonPrefix(t.items, t.list)
            q == CommonSuffix(t.items, t.list, p)
        IN q > 0 =>
             /\ t.st = "ok"
             /\ \A k \in 0..(q - 1) :
                    /\ t.newMapped[Len(t.list) - k] = t.mapped[Len(t.items) - k]
                    /\ t.newScopes[Len(t.list) - k] = t.scopes[Len(t.items) - k]
             /\ Len(t.invoked) <= Len(t.list) - p - q

\* The positions of two lists of distinct items agree as sets of items.
IsPermutation(a, b) ==
    /\ Len(a) = Len(b)
    /\ NoDuplicates(a) /\ NoDuplicates(b)
    /\ Range(a) = Range(b)

\* The index of item x in a list of distinct items.
IndexOf(a, x) == CHOOSE i \in 1..Len(a) : a[i] = x

\* C33: when the new list is a permutation of the previous list, with
\* distinct items, a map_keyed update moves each item's output and scope to
\* the item's new index, invokes the mapping function zero times and
\* disposes no scope.
C33_KeyedPermutation ==
    \A n \in KeyedGeneralCalls :
        LET t == trace[n] IN
        IsPermutation(t.items, t.list) =>
            /\ t.st = "ok"
            /\ \A i \in 1..Len(t.list) :
                   /\ t.newMapped[i] = t.mapped[IndexOf(t.items, t.list[i])]
                   /\ t.newScopes[i] = t.scopes[IndexOf(t.items, t.list[i])]
            /\ t.invoked = <<>>
            /\ t.disposed = {}

\* The positions of value v in list a among the positions lo..hi, ascending.
Occurrences(a, v, lo, hi) == Ascending({i \in lo..hi : a[i] = v})

\* C34: when a value occurs several times, map_keyed pairs old and new
\* occurrences of the differing range in stable left-to-right order: the
\* k-th old occurrence supplies the output of the k-th new one, new
\* occurrences beyond the old count are mapped fresh, and old occurrences
\* beyond the new count are disposed.
C34_KeyedDuplicatesPaired ==
    \A n \in KeyedGeneralCalls :
        LET t == trace[n]
            p == CommonPrefix(t.items, t.list)
            q == CommonSuffix(t.items, t.list, p)
        IN \A v \in ItemVals :
             LET old == Occurrences(t.items, v, p + 1, Len(t.items) - q)
                 new == Occurrences(t.list, v, p + 1, Len(t.list) - q)
             IN (Len(old) > 1 \/ Len(new) > 1) =>
                  /\ t.st = "ok"
                  /\ \A k \in 1..Len(new) :
                         IF k <= Len(old)
                         THEN /\ t.newMapped[new[k]] = t.mapped[old[k]]
                              /\ t.newScopes[new[k]] = t.scopes[old[k]]
                         ELSE /\ t.newScopes[new[k]] # None
                              /\ t.newScopes[new[k]][1] \in t.created
                  /\ \A k \in 1..Len(old) :
                         k > Len(new) => t.scopes[old[k]][1] \in t.disposed

\* The scopes of the previous state whose item is matched by the new list:
\* prefix and suffix positions, and in the differing range the k-th old
\* occurrence of a value when the new range has at least k occurrences.
MatchedScopes(t) ==
    LET p == CommonPrefix(t.items, t.list)
        q == CommonSuffix(t.items, t.list, p)
        matched(i) ==
            \/ i <= p
            \/ i > Len(t.items) - q
            \/ Cardinality({j \in (p + 1)..i : t.items[j] = t.items[i]})
                  <= Cardinality({j \in (p + 1)..(Len(t.list) - q) : t.list[j] = t.items[i]})
    IN {t.scopes[i][1] : i \in {j \in 1..Len(t.items) : t.scopes[j] # None /\ matched(j)}}

\* C35: in a map_keyed update the scope of a previous item is released if
\* and only if the item has no match in the new list; the scope of every
\* reused item stays alive, and no scope the state refers to after the
\* update has been disposed.
C35_KeyedDisposesUnmatched ==
    \A n \in KeyedCalls :
        LET t == trace[n] IN
        /\ t.disposed \cap ScopeIds(t.scopes) = ScopeIds(t.scopes) \ MatchedScopes(t)
        /\ MatchedScopes(t) \subseteq ScopeIds(t.newScopes)
        /\ ScopeIds(t.newScopes) \cap t.disposed = {}

\* The same for the updates that return: there the scopes are handled as
\* C35 says.
KeyedScopesWhenCompleted ==
    \A n \in KeyedCalls :
        LET t == trace[n] IN
        t.st = "ok" =>
            /\ t.disposed = ScopeIds(t.scopes) \ MatchedScopes(t)
            /\ MatchedScopes(t) \subseteq ScopeIds(t.newScopes)
            /\ ScopeIds(t.newScopes) \cap t.disposed = {}
            /\ \A i \in 1..Len(t.newScopes) : t.newScopes[i] # None

\* C36: after every completed update of map_keyed and of map_indexed the
\* saved items, the outputs and the scopes have the length of the new list,
\* the saved items equal the new list, and the length assertion that ends
\* an update never fails.
C36_LengthsAfterUpdate ==
    /\ status # "lengths"
    /\ (trace # <<>> /\ trace[Len(trace)].st = "ok") =>
           /\ items = trace[Len(trace)].list
           /\ Len(mapped) = Len(items)
           /\ Len(scopes) = Len(items)

\* An update that shrinks a list of two items to one has completed.
C36_Witness ==
    /\ trace # <<>> /\ trace[Len(trace)].st = "ok"
    /\ Len(trace[Len(trace)].items) = 2
    /\ Len(items) = 1 /\ Len(mapped) = 1 /\ Len(scopes) = 1

\* The invocation of the map function that created scope sid: the item it
\* was called on and the output it produced.  Scopes are numbered in
\* creation order, and the counting map function returns the number of the
\* invocation.
InvocationOf(sid) ==
    LET k == CHOOSE n \in 1..Len(trace) : sid \in trace[n].created
        ids == Ascending(trace[k].created)
        j == CHOOSE x \in 1..Len(ids) : ids[x] = sid
        item == trace[k].invoked[j]
    IN [item |-> item, value |-> MapFn(item, sid - 1)]

\* C37: after every completed map_keyed update, with a pure or an impure
\* mapping function, the output at each index was produced by an invocation
\* of the mapping function on a value equal to the current item at that
\* index, and the scope at the index is the one that invocation created.
C37_KeyedOutputMatchesItem ==
    \A n \in KeyedCalls :
        LET t == trace[n] IN
        t.st = "ok" =>
            \A i \in 1..Len(t.list) :
                /\ t.newScopes[i] # None
                /\ InvocationOf(t.newScopes[i][1]).item = t.list[i]
                /\ InvocationOf(t.newScopes[i][1]).value = t.newMapped[i]

\* A completed update of the general case that moved the outputs of the
\* counting map function to other indices.
C37_Witness ==
    /\ mode = "keyed" /\ mapper = "counter"
    /\ \E n \in KeyedGeneralCalls :
          /\ trace[n].st = "ok"
          /\ trace[n].items # trace[n].list
          /\ trace[n].newMapped # trace[n].mapped
          /\ trace[n].invoked = <<>>

\* C38: when a memo is re-run because the body of a running effect wrote
\* one of the memo's upstream signals, the signals its derive reads are not
\* added to that effect's dependencies.  Eu reads nothing tracked and
\* writes B, which memo M4 reads along with A: Eu never has a dependency,
\* is in no subscriber list and is never re-run by a write.
C38_MemoRerunKeepsEffectDependencies ==
    /\ dependencies["Eu"] = <<>>
    /\ \A s \in Signals : "Eu" \notin Range(subscribers[s])
    /\ \A i \in 1..Len(stack) :
           (stack[i].kind = "run" /\ stack[i].comp = "Eu") => stack[i].sig = "-"

\* The value of start when the next call of the closure of map_keyed
\* reaches the assertion that follows the prefix loop.
StartAfterPrefix ==
    SkipPrefix(list, 0, IF Len(items) < Len(list) THEN Len(items) ELSE Len(list))

\* C39: whenever the general case of map_keyed reaches the assertion placed
\* after common-prefix skipping, start is a valid index of the previous and
\* of the new list and items[start] != new_items[start].
C39_PrefixAssertionHolds ==
    (Idle /\ mode = "keyed" /\ MayCall(list) /\ items # <<>> /\ list # <<>>) =>
        /\ InRange(items, StartAfterPrefix)
        /\ InRange(list, StartAfterPrefix)
        /\ At(items, StartAfterPrefix) # At(list, StartAfterPrefix)

====
